---- MODULE Spec2Model ----
(***************************************************************************)
(* Model of the screener's concurrent scan-and-rank engines                *)
(*   scan_at_200dma      (screener/services.py)                            *)
(*   top_volume_spikes   (screener/services_volume.py)                     *)
(*   scan_monthly_ma     (screener/services_ma_monthly.py)                 *)
(* and of the cached HTTP endpoints in front of them (screener/views*.py). *)
(*                                                                         *)
(* Numbers.  Prices and volumes are integers.  Python floats are modelled  *)
(* as exact rationals: a quotient is kept as numerator and denominator and *)
(* compared by cross-multiplication; round(x, k) is round-half-to-even of  *)
(* the exact value, expressed in units of 10^-k.                           *)
(*   tol              in units of 1/TolScale       (0.003 is 300)          *)
(*   factor           in units of 1/FactorScale    (3.0 is 30000)          *)
(*   distance_pct     in units of 0.001 percent    (round(.., 3))          *)
(*   ratio, multiple  in units of 0.01             (round(.., 2))          *)
(*   close, sma       in units of 0.01             (round(.., 2))          *)
(***************************************************************************)
EXTENDS Integers, Sequences, FiniteSets, TLC

\* ------------------------------------------------------------------ bounds
NumSymbols == 2          \* symbols in the scanned universe
MaxRequests == 3         \* requests served in one behaviour

\* ------------------------------------------------------- program constants
MIN_ROWS_200 == 210      \* services.py: df.shape[0] < 210
SMA_WINDOW == 200        \* services.py: close.rolling(200)
MIN_BARS == 20           \* services_volume.py: max(20, window + 5)
WINDOW_SLACK == 5        \* services_volume.py: max(20, window + 5)
DEFAULT_TOL == 300       \* views.py, views_ma_monthly.py: tol 0.003
DEFAULT_FACTOR == 30000  \* views_volume.py: factor 3.0
DEFAULT_LIMIT_VOLUME == 5    \* views_volume.py: limit 5
DEFAULT_WINDOW == 100    \* views_volume.py: window 100
PREVIEW_LIMIT == 10      \* views_volume.py: debug preview, limit=10
DEFAULT_LIMIT_MONTHLY == 50  \* views_ma_monthly.py: limit 50
DEFAULT_LIMIT_NEWS == 3  \* views.py: limit 3
DEFAULT_EVENT_WINDOW == 15   \* views.py: event_window 15
DEFAULT_MAX == 20        \* views.py: max 20

\* tol * 100 is a percentage and distance_pct is rounded to 3 decimals, so
\* one unit of tol is 0.001 percent; 100 * ratio is rounded to 2 decimals,
\* so one unit of factor is 0.01 percent.
TolScale == 100 * 1000

FactorScale == 100 * 100

\* ---------------------------------------------------------------- numbers
Abs(x) == IF x < 0 THEN -x ELSE x

Max(a, b) == IF a >= b THEN a ELSE b

Min(a, b) == IF a <= b THEN a ELSE b

\* Python round(): nearest, ties to even; num/den with den > 0.
RoundHalfEven(num, den) ==
  LET a == Abs(num)
      q == a \div den
      r == a % den
      m == IF 2 * r > den THEN q + 1
           ELSE IF 2 * r < den THEN q
           ELSE IF q % 2 = 0 THEN q ELSE q + 1
  IN  IF num < 0 THEN -m ELSE m

\* ----------------------------------------------------------------- series
Flat(n, v) == [i \in 1..n |-> v]

\* pandas .tail(n): last n rows; n = 0 none; n < 0 all but the first -n.
TailRows(s, n) ==
  LET k == IF n >= 0 THEN Min(n, Len(s)) ELSE Max(Len(s) + n, 0)
  IN  SubSeq(s, Len(s) - k + 1, Len(s))

\* pandas .iloc[:-1]
DropLast(s) == SubSeq(s, 1, Len(s) - 1)

RECURSIVE SumRange(_, _, _)
SumRange(s, lo, hi) ==
  IF lo > hi THEN 0
  ELSE IF lo = hi THEN s[lo]
  ELSE LET mid == (lo + hi) \div 2
       IN  SumRange(s, lo, mid) + SumRange(s, mid + 1, hi)

SumSeq(s) == SumRange(s, 1, Len(s))

RECURSIVE MaxRange(_, _, _)
MaxRange(s, lo, hi) ==
  IF lo = hi THEN s[lo]
  ELSE LET mid == (lo + hi) \div 2
       IN  Max(MaxRange(s, lo, mid), MaxRange(s, mid + 1, hi))

\* Series.max() of a non-empty series
MaxSeq(s) == MaxRange(s, 1, Len(s))

\* A fetched frame: NoData (fetch returned None), or rows with a flag telling
\* whether the value column can be read as numbers (ok = FALSE: the Close
\* column is missing, or the cells do not convert, so reading it raises).
NoData == [present |-> FALSE, ok |-> TRUE, bars |-> <<>>]

Frame(bars) == [present |-> TRUE, ok |-> TRUE, bars |-> bars]

BadFrame(bars) == [present |-> TRUE, ok |-> FALSE, bars |-> bars]

\* the history call that never returns: yf.Ticker(symbol).history(...) is
\* called without a timeout and the future is awaited without one
NoReply == [present |-> FALSE, ok |-> FALSE, bars |-> <<>>]

\* the fetch of the unit comes back
Responds(df) == df # NoReply

\* ----------------------------------------------------- unit-of-work result
NoRow == [symbol |-> 0]

RetNone == [tag |-> "none", row |-> NoRow]

RetRow(r) == [tag |-> "row", row |-> r]

Raise == [tag |-> "raise", row |-> NoRow]

\* ------------------------------------------ services_volume.py: the calc
\* mutation: the length guard only asks for some bar
EnoughVolumeBars_AnyBar(vol, window) == Len(vol) > 0

\* "need bars to compute a solid window"
EnoughVolumeBars(vol, window) == Len(vol) >= Max(MIN_BARS, window + WINDOW_SLACK)

\* Position of the bar taken as today; 0 when there is none.
TodayIndex(vol, use_last_nonzero) ==
  IF use_last_nonzero
  THEN LET nz == {i \in 1..Len(vol) : vol[i] > 0}
       IN  IF nz = {} THEN 0 ELSE CHOOSE i \in nz : \A j \in nz : j <= i
  ELSE Len(vol)

\* vol.loc[:idx].iloc[:-1].tail(window)  /  vol.iloc[:-1].tail(window)
PriorWindow(vol, window, use_last_nonzero) ==
  TailRows(DropLast(SubSeq(vol, 1, TodayIndex(vol, use_last_nonzero))), window)

\* mutation: the guard lets a zero maximum through
PrevMaxUsable_AllowZero(prev_max) == prev_max >= 0

\* "if prev_max <= 0: return None"
PrevMaxUsable(prev_max) == prev_max > 0

CompNone == [tag |-> "none", today_vol |-> 0, prev_max |-> 0]

CompRaise == [tag |-> "raise", today_vol |-> 0, prev_max |-> 0]

\* ratio = today_vol / prev_max is carried as the pair (today_vol, prev_max);
\* dividing by 0 raises ZeroDivisionError.
compute_volume_ratio(df, window, use_last_nonzero) ==
  IF ~df.ok THEN CompRaise
  ELSE LET vol == df.bars
           t == TodayIndex(vol, use_last_nonzero)
           prior == PriorWindow(vol, window, use_last_nonzero)
           prev_max == MaxSeq(prior)
       IN  IF ~EnoughVolumeBars(vol, window) THEN CompNone
           ELSE IF t = 0 THEN CompNone
           ELSE IF Len(prior) = 0 THEN CompNone
           ELSE IF ~PrevMaxUsable(prev_max) THEN CompNone
           ELSE IF prev_max = 0 THEN CompRaise
           ELSE [tag |-> "ok", today_vol |-> vol[t], prev_max |-> prev_max]

\* mutation: a ratio equal to the factor is rejected too
BelowFactor_OrEqual(today_vol, prev_max, factor) ==
  today_vol * FactorScale <= factor * prev_max

\* "if ratio < factor: return None"
BelowFactor(today_vol, prev_max, factor) ==
  today_vol * FactorScale < factor * prev_max

VolumeRow(sym, today_vol, prev_max, window) ==
  [symbol |-> sym,
   today_volume |-> today_vol,
   prev_window_max |-> prev_max,
   ratio |-> RoundHalfEven(100 * today_vol * 100, prev_max),
   multiple |-> RoundHalfEven(today_vol * 100, prev_max),
   window |-> window]

\* task(sym) of top_volume_spikes
VolumeTask(sym, df, p) ==
  IF ~df.present THEN RetNone
  ELSE LET comp == compute_volume_ratio(df, p.window, p.use_last_nonzero)
       IN  IF comp.tag = "raise" THEN Raise
           ELSE IF comp.tag = "none" THEN RetNone
           ELSE IF BelowFactor(comp.today_vol, comp.prev_max, p.factor) THEN RetNone
           ELSE RetRow(VolumeRow(sym, comp.today_vol, comp.prev_max, p.window))

\* sort key (multiple, today_volume), reverse=True
VolumeBefore(a, b) ==
  \/ a.multiple > b.multiple
  \/ a.multiple = b.multiple /\ a.today_volume > b.today_volume

\* --------------------------------------------- services.py: scan_at_200dma
\* close.rolling(n).mean().iloc[-1], carried as the sum of the last n closes
\* over n; NaN when fewer than n closes exist.
RollingMeanLast(close, n) ==
  IF Len(close) < n
  THEN [nan |-> TRUE, sum |-> 0, n |-> n]
  ELSE [nan |-> FALSE, sum |-> SumRange(close, Len(close) - n + 1, Len(close)), n |-> n]

\* "df is None or df.shape[0] < 210"
EnoughRows200(df) == df.present /\ Len(df.bars) >= MIN_ROWS_200

\* "np.isnan(last_sma) or last_sma == 0"
SmaUsable(sma) == ~(sma.nan \/ sma.sum = 0)

\* abs((last_close - last_sma) / last_sma) <= tol
WithinTol(last_close, sma, tol) ==
  Abs(last_close * sma.n - sma.sum) * TolScale <= tol * Abs(sma.sum)

\* round(100 * (last_close - last_sma) / last_sma, 3)
DistancePct3(last_close, sma) ==
  IF sma.sum > 0
  THEN RoundHalfEven((last_close * sma.n - sma.sum) * 100 * 1000, sma.sum)
  ELSE RoundHalfEven((sma.sum - last_close * sma.n) * 100 * 1000, -sma.sum)

\* round(price, 2), in units of 0.01
Round2(num, den) == RoundHalfEven(num * 100, den)

\* worker(tk) of scan_at_200dma
Worker200(sym, df, p) ==
  IF ~EnoughRows200(df) THEN RetNone
  ELSE IF ~df.ok THEN Raise
  ELSE LET close == df.bars
           sma == RollingMeanLast(close, SMA_WINDOW)
           last_close == close[Len(close)]
       IN  IF ~SmaUsable(sma) THEN RetNone
           ELSE IF sma.sum = 0 THEN Raise
           ELSE IF WithinTol(last_close, sma, p.tol)
                THEN RetRow([symbol |-> sym,
                             close |-> Round2(last_close, 1),
                             sma200 |-> Round2(sma.sum, sma.n),
                             distance_pct |-> DistancePct3(last_close, sma)])
                ELSE RetNone

\* mutation: the sort key forgets abs()
Before200_Signed(a, b) == a.distance_pct < b.distance_pct

\* sort key abs(r.distance_pct)
Before200(a, b) == Abs(a.distance_pct) < Abs(b.distance_pct)

\* --------------------------------- services_ma_monthly.py: scan_monthly_ma
MonthlyNone == [tag |-> "none", close |-> 0, sma |-> [nan |-> TRUE, sum |-> 0, n |-> 0], dist |-> 0]

MonthlyRaise == [tag |-> "raise", close |-> 0, sma |-> [nan |-> TRUE, sum |-> 0, n |-> 0], dist |-> 0]

\* "if len(close) < n: return None"
EnoughMonths(close, n) == Len(close) >= n

\* _sma_distance_monthly(df, n); dist is round(dist_pct, 3) as stored by task
sma_distance_monthly(df, n) ==
  IF ~df.ok THEN MonthlyRaise
  ELSE LET close == df.bars
           sma == RollingMeanLast(close, n)
       IN  IF ~EnoughMonths(close, n) THEN MonthlyNone
           ELSE IF ~SmaUsable(sma) THEN MonthlyNone
           ELSE IF sma.sum = 0 THEN MonthlyRaise
           ELSE [tag |-> "ok", close |-> close[Len(close)], sma |-> sma,
                 dist |-> DistancePct3(close[Len(close)], sma)]

Range(f) == {f[i] : i \in DOMAIN f}

\* task(sym) of scan_monthly_ma: one row holding the figures of every m
MonthlyTask(sym, df, p) ==
  IF ~df.present THEN RetNone
  ELSE LET comp == [m \in Range(p.ma_list) |-> sma_distance_monthly(df, m)]
       IN  IF \E m \in Range(p.ma_list) : comp[m].tag = "raise" THEN Raise
           ELSE RetRow([symbol |-> sym, comp |-> comp])

\* "abs(d) <= (tol * 100.0)" on the rounded distance
MonthlyWithinTol(d, tol) == Abs(d) <= tol

MonthlyMatch(r, m) ==
  [symbol |-> r.symbol,
   close |-> Round2(r.comp[m].close, 1),
   sma |-> Round2(r.comp[m].sma.sum, r.comp[m].sma.n),
   distance_pct |-> r.comp[m].dist]

\* sort key (abs(distance_pct), -close)
MonthlyBefore(a, b) ==
  \/ Abs(a.distance_pct) < Abs(b.distance_pct)
  \/ Abs(a.distance_pct) = Abs(b.distance_pct) /\ -a.close < -b.close

\* ------------------------------------------------------ sort and truncate
\* the strict order of the sort key of scan k
Precedes(k, a, b) ==
  IF k = "dma200" THEN Before200(a, b)
  ELSE IF k = "monthly" THEN MonthlyBefore(a, b)
  ELSE VolumeBefore(a, b)

\* list.sort / sorted: stable, elements with equal keys keep their order
SortBy(k, seq) ==
  LET n == Len(seq)
      rank(i) == 1 + Cardinality({j \in 1..n :
                        \/ Precedes(k, seq[j], seq[i])
                        \/ ~Precedes(k, seq[i], seq[j]) /\ j < i})
  IN  [j \in 1..n |-> seq[CHOOSE i \in 1..n : rank(i) = j]]

SortVolume(results) == SortBy("volume", results)

Sort200(results) == SortBy("dma200", results)

SortMonthly(matches) == SortBy("monthly", matches)

\* mutation: the slice keeps one entry too many
Truncate_OneMore(list, limit) == SubSeq(list, 1, Min(Len(list), Max(1, limit) + 1))

\* results[: max(1, limit)]
Truncate(list, limit) == SubSeq(list, 1, Min(Len(list), Max(1, limit)))

RECURSIVE MapSelect_AllWindows(_, _, _)
\* mutation: a row is kept for m only when it qualifies for every window
MapSelect_AllWindows(rows, m, tol) ==
  IF rows = <<>> THEN <<>>
  ELSE LET r == rows[Len(rows)]
           rest == MapSelect_AllWindows(DropLast(rows), m, tol)
       IN  IF \A w \in DOMAIN r.comp :
                 r.comp[w].tag = "ok" /\ MonthlyWithinTol(r.comp[w].dist, tol)
           THEN Append(rest, MonthlyMatch(r, m))
           ELSE rest

RECURSIVE MapSelect(_, _, _)
\* [f(r) for r in rows if keep(r)], kept as (rows, m, tol) for the buckets
MapSelect(rows, m, tol) ==
  IF rows = <<>> THEN <<>>
  ELSE LET r == rows[Len(rows)]
           rest == MapSelect(DropLast(rows), m, tol)
       IN  IF r.comp[m].tag = "ok" /\ MonthlyWithinTol(r.comp[m].dist, tol)
           THEN Append(rest, MonthlyMatch(r, m))
           ELSE rest

\* "collect matches for each MA"
MonthlyRanked(rows, p) ==
  [m \in Range(p.ma_list) |-> SortMonthly(MapSelect(rows, m, p.tol))]

MonthlyBuckets(rows, p) ==
  [m \in Range(p.ma_list) |-> Truncate(MonthlyRanked(rows, p)[m], p.limit)]

\* ---------------------------------------------------- the scan, as a whole
Kinds == {"dma200", "monthly", "volume"}

\* the per-symbol unit of work of each scan
Task(k, sym, df, p) ==
  IF k = "dma200" THEN Worker200(sym, df, p)
  ELSE IF k = "monthly" THEN MonthlyTask(sym, df, p)
  ELSE VolumeTask(sym, df, p)

\* the fully ranked matches, before any truncation
Ranked(k, collected, p) ==
  IF k = "dma200" THEN Sort200(collected)
  ELSE IF k = "monthly" THEN MonthlyRanked(collected, p)
  ELSE SortVolume(collected)

\* the value the scan returns once every unit has been collected
Returned(k, collected, p) ==
  IF k = "dma200" THEN Sort200(collected)
  ELSE IF k = "monthly" THEN MonthlyBuckets(collected, p)
  ELSE Truncate(SortVolume(collected), p.limit)

\* ------------------------------------------------------------------ inputs
Params(tol, factor, limit, window, ulz, ma_list) ==
  [tol |-> tol, factor |-> factor, limit |-> limit, window |-> window,
   use_last_nonzero |-> ulz, ma_list |-> ma_list]

Limits == {-1, 0, 1, 2}

\* daily closes: too few rows, zero closes, flat, just above and just below
\* the average (equal |distance|), far from the average, unreadable Close
Closes200 ==
  {NoData,
   BadFrame(Flat(MIN_ROWS_200, 1000)),
   Frame(Flat(MIN_ROWS_200 - 1, 1000)),
   Frame(Flat(MIN_ROWS_200, 0)),
   Frame(Flat(MIN_ROWS_200, 1000)),
   Frame(Flat(MIN_ROWS_200 - 1, 1000) \o <<1002>>),
   Frame(Flat(MIN_ROWS_200 - 1, 1000) \o <<998>>),
   Frame(Flat(MIN_ROWS_200 - 1, 1000) \o <<1100>>)}

Params200 == {Params(tol, 0, 0, 0, FALSE, <<>>) : tol \in {0, 100, 300}}

\* monthly closes; the last series is 0.3002% above its two-month average
ClosesMonthly ==
  {NoData,
   Frame(<<498499, 501501>>),
   BadFrame(<<1000, 1000, 1000>>),
   Frame(<<>>),
   Frame(<<1000, 1000>>),
   Frame(<<0, 0, 0>>),
   Frame(<<1000, 1000, 1000>>),
   Frame(<<1000, 1000, 1003>>),
   Frame(<<1000, 1003, 1000>>)}

ParamsMonthly ==
  {Params(tol, 0, limit, 0, FALSE, ma) :
     tol \in {150, 300}, limit \in Limits, ma \in {<<2, 3>>, <<3>>}}

\* daily volumes
Volumes ==
  {NoData,
   BadFrame(Flat(MIN_BARS + 1, 100)),
   Frame(Flat(MIN_BARS - WINDOW_SLACK, 100)),
   Frame(Flat(MIN_BARS, 100) \o <<33>>),
   Frame(Flat(MIN_BARS, 3) \o <<1>>),
   Frame(Flat(MIN_BARS, 1) \o <<4>>),
   Frame(Flat(MIN_BARS, 0) \o <<7>>),
   Frame(<<1, 5>> \o Flat(MIN_BARS - 1, 0)),
   Frame(Flat(MIN_BARS - 2, 100) \o <<0, 0, 500>>)}

ParamsVolume ==
  {Params(0, factor, limit, window, ulz, <<>>) :
     factor \in {0, 3300, 40000}, limit \in Limits,
     window \in {2, 16}, ulz \in BOOLEAN}

DataSet(k) ==
  IF k = "dma200" THEN Closes200
  ELSE IF k = "monthly" THEN ClosesMonthly ELSE Volumes

ParamSet(k) ==
  IF k = "dma200" THEN Params200
  ELSE IF k = "monthly" THEN ParamsMonthly ELSE ParamsVolume

\* ------------------------------------------------------------------- state
VARIABLES
  kind,      \* which scan is running
  symbols,   \* the list handed to the scan
  hist,      \* what the history fetch returns for each symbol
  tickers,   \* the symbols of the rows of the Ticker table
  params,    \* the scan's arguments
  pc,        \* "running", "done" (returned) or "raised" (left by exception)
  unit,      \* per submitted future: "pending", "none", "row" or "raise"
  results,   \* rows appended so far, in completion order
  ranked,    \* the sorted matches before truncation
  out,       \* the returned value
  cache,     \* django cache: scan payloads by cache key
  ucache,    \* django cache: symbol lists by universe name
  request,   \* the request being answered
  response,  \* the answer to it
  nreq,      \* requests served so far
  calls,     \* the scans invoked while answering the request
  failed     \* the symbols whose enrichment task raised while answering it

scanVars == <<symbols, params, pc, unit, results, ranked, out>>

apiVars == <<cache, ucache, request, response, nreq, calls, failed>>

vars == <<kind, hist, tickers, scanVars, apiVars>>

NoRequest == [endpoint |-> "none"]

NoResponse == [status |-> 0]

\* The call has submitted one future per element of the list.
Init ==
  /\ kind \in Kinds
  /\ \E n \in 0..NumSymbols :
       /\ symbols = [i \in 1..n |-> i]
       /\ hist \in [1..n -> DataSet(kind)]
       /\ unit = [i \in 1..n |-> "pending"]
       /\ tickers = [i \in 1..n |-> i]
  /\ params \in ParamSet(kind)
  /\ pc = "running"
  /\ results = <<>>
  /\ ranked = <<>>
  /\ out = <<>>
  /\ cache = <<>>
  /\ ucache = <<>>
  /\ request = NoRequest
  /\ response = NoResponse
  /\ nreq = 0
  /\ calls = <<>>
  /\ failed = {}

\* as_completed yields future i; fut.result() re-raises what the unit raised
Complete(i) ==
  /\ pc = "running"
  /\ unit[i] = "pending"
  /\ Responds(hist[symbols[i]])
  /\ LET r == Task(kind, symbols[i], hist[symbols[i]], params)
     IN  /\ unit' = [unit EXCEPT ![i] = r.tag]
         /\ pc' = IF r.tag = "raise" THEN "raised" ELSE pc
         /\ results' = IF r.tag = "row" THEN Append(results, r.row) ELSE results
  /\ UNCHANGED <<kind, symbols, hist, tickers, params, ranked, out, apiVars>>

\* mutation: the collecting loop also stops once enough rows are in
AllCollected_OrEnough ==
  \/ \A i \in DOMAIN unit : unit[i] # "pending"
  \/ Len(results) >= Max(1, params.limit)

\* "for fut in as_completed(futs)" has run out of futures
AllCollected == \A i \in DOMAIN unit : unit[i] # "pending"

\* every future has been collected: sort, truncate, return
Finish ==
  /\ pc = "running"
  /\ AllCollected
  /\ ranked' = Ranked(kind, results, params)
  /\ out' = Returned(kind, results, params)
  /\ pc' = "done"
  /\ UNCHANGED <<kind, symbols, hist, tickers, params, unit, results, apiVars>>

Next == (\E i \in DOMAIN unit : Complete(i)) \/ Finish

Spec == Init /\ [][Next]_vars

\* ------------------------------------------------------------- vocabulary
Units == DOMAIN unit

Finished == pc = "done"

\* the window sizes the running scan computes
WindowsOf(k, p) ==
  IF k = "dma200" THEN {SMA_WINDOW}
  ELSE IF k = "monthly" THEN Range(p.ma_list) ELSE {p.window}

\* the result list for window w in a returned value
BucketOf(k, value, w) == IF k = "monthly" THEN value[w] ELSE value

SymbolsIn(list) == {list[j].symbol : j \in 1..Len(list)}

Adjacent(list) == {j \in 1..Len(list) : j + 1 <= Len(list)}

\* the units whose own code raised
Faulted == {i \in Units : unit[i] = "raise"}

\* the orders in which n futures can complete
Orders(n) == {f \in [1..n -> 1..n] : \A a, b \in 1..n : f[a] = f[b] => a = b}

\* what each unit of the scan returns or raises
RECURSIVE OutcomesTo(_, _, _, _, _)
\* the outcomes of the first n submitted tasks
OutcomesTo(k, syms, h, p, n) ==
  IF n = 0 THEN <<>>
  ELSE Append(OutcomesTo(k, syms, h, p, n - 1), Task(k, syms[n], h[syms[n]], p))

Outcomes(k, syms, h, p) == OutcomesTo(k, syms, h, p, Len(syms))

\* the rows appended when the first n completions are order[1..n]
RECURSIVE Collect(_, _, _)
Collect(outs, order, n) ==
  IF n = 0 THEN <<>>
  ELSE LET r == outs[order[n]]
           rest == Collect(outs, order, n - 1)
       IN  IF r.tag = "row" THEN Append(rest, r.row) ELSE rest

\* mutation: a pool sized by the symbol list refuses an empty list
ScanRaises_EmptyPool(k, syms, h, p) ==
  \/ syms = <<>>
  \/ \E i \in 1..Len(syms) : Outcomes(k, syms, h, p)[i].tag = "raise"

\* whether some unit of the scan raises
ScanRaises(k, syms, h, p) ==
  \E i \in 1..Len(syms) : Outcomes(k, syms, h, p)[i].tag = "raise"

\* every value the scan can return, over all completion orders
PossibleReturns(k, syms, h, p) ==
  LET outs == Outcomes(k, syms, h, p)
  IN  {Returned(k, Collect(outs, order, Len(syms)), p) : order \in Orders(Len(syms))}

\* the units whose history fetch never comes back
Silent == {i \in Units : ~Responds(hist[symbols[i]])}

\* the value returned when the futures complete in submission order
SerialReturn(k, syms, h, p) ==
  Returned(k, Collect(Outcomes(k, syms, h, p), [i \in 1..Len(syms) |-> i], Len(syms)), p)

\* the fetched history with the given symbols' data replaced by no data
WithoutData(h, gone) == [s \in DOMAIN h |-> IF s \in gone THEN NoData ELSE h[s]]

\* ------------------------------------------------------------------ claims
\* C1: a fault raised inside one symbol's unit of work is absorbed at that
\* unit: the scan still returns, and what it returns is what it would return
\* had the faulting symbols had no data.
C1_FaultAbsorbed ==
  (pc # "running" /\ Faulted # {}) =>
     /\ pc = "done"
     /\ out \in PossibleReturns(kind, symbols,
                   WithoutData(hist, {symbols[i] : i \in Faulted}), params)

\* C2: for fixed universe, parameters and series, the returned list is the
\* same whatever order the units complete in (here: the same as when they
\* complete in submission order), ties in the rank key included.
C2_OrderIndependent ==
  Finished => out = SerialReturn(kind, symbols, hist, params)

\* C3: in every list top_volume_spikes returns, adjacent matches a, b have
\* a.ratio >= b.ratio and, when the ratios are equal,
\* a.today_volume >= b.today_volume.
C3_RatioDescending ==
  (Finished /\ kind = "volume") =>
     \A j \in Adjacent(out) :
        /\ out[j].ratio >= out[j + 1].ratio
        /\ out[j].ratio = out[j + 1].ratio =>
              out[j].today_volume >= out[j + 1].today_volume

\* C6: the list of top_volume_spikes and every bucket of scan_monthly_ma
\* has at most max(1, limit) entries; for limit >= 1 it has at most limit
\* entries and is the prefix of the fully ranked match list.
C6_LimitRespected ==
  (Finished /\ kind \in {"volume", "monthly"}) =>
     \A w \in WindowsOf(kind, params) :
        LET got == BucketOf(kind, out, w)
            all == BucketOf(kind, ranked, w)
        IN  /\ Len(got) <= Max(1, params.limit)
            /\ params.limit >= 1 =>
                  /\ Len(got) = Min(params.limit, Len(all))
                  /\ got = SubSeq(all, 1, Len(got))

C6_Witness ==
  /\ Finished
  /\ kind = "volume"
  /\ params.limit = 1
  /\ Len(ranked) = 2
  /\ Len(out) = 1

\* a well-formed series that is absent, empty or shorter than w bars
TooShort(df, w) == ~df.present \/ (df.ok /\ Len(df.bars) < w)

\* C7: a symbol whose series is absent, empty or shorter than a positive
\* window w never appears in the result for w, and its unit raises nothing.
C7_ShortSeriesExcluded ==
  \A i \in Units : \A w \in WindowsOf(kind, params) :
     (w > 0 /\ TooShort(hist[symbols[i]], w)) =>
        /\ unit[i] # "raise"
        /\ Finished => symbols[i] \notin SymbolsIn(BucketOf(kind, out, w))

C7_Witness ==
  /\ Finished
  /\ \E i \in Units : \E w \in WindowsOf(kind, params) :
        /\ hist[symbols[i]].present
        /\ TooShort(hist[symbols[i]], w)
        /\ Len(hist[symbols[i]].bars) > 0
        /\ Len(BucketOf(kind, out, w)) > 0

\* C8: with use_last_nonzero, compute_volume_ratio yields a result only if
\* at least window bars precede the bar taken as today, so the prior-window
\* maximum is never taken over fewer than window bars.
C8_FullPriorWindow ==
  (kind = "volume" /\ params.use_last_nonzero) =>
     \A i \in Units :
        LET df == hist[symbols[i]]
        IN  (unit[i] # "pending" /\ df.present /\
             compute_volume_ratio(df, params.window, TRUE).tag = "ok") =>
               /\ TodayIndex(df.bars, TRUE) - 1 >= params.window
               /\ Len(PriorWindow(df.bars, params.window, TRUE)) >= params.window

\* C9: in the list of scan_at_200dma and every bucket of scan_monthly_ma,
\* adjacent matches a, b have abs(a.distance_pct) <= abs(b.distance_pct).
C9_ClosestFirst ==
  (Finished /\ kind \in {"dma200", "monthly"}) =>
     \A w \in WindowsOf(kind, params) :
        LET got == BucketOf(kind, out, w)
        IN  \A j \in Adjacent(got) :
               Abs(got[j].distance_pct) <= Abs(got[j + 1].distance_pct)

C9_Witness ==
  /\ Finished
  /\ kind = "dma200"
  /\ Len(results) = 2
  /\ Abs(results[1].distance_pct) > Abs(results[2].distance_pct)
  /\ Len(out) = 2

\* the reference statistic of the symbol for window w is computed and is 0
ZeroReference(k, df, p, w) ==
  /\ df.present /\ df.ok
  /\ IF k = "volume"
     THEN /\ EnoughVolumeBars(df.bars, w)
          /\ TodayIndex(df.bars, p.use_last_nonzero) # 0
          /\ Len(PriorWindow(df.bars, w, p.use_last_nonzero)) > 0
          /\ MaxSeq(PriorWindow(df.bars, w, p.use_last_nonzero)) = 0
     ELSE /\ Len(df.bars) >= w
          /\ SumSeq(TailRows(df.bars, w)) = 0

\* C10: a symbol whose reference statistic (last rolling mean, prior-window
\* maximum) is exactly 0 never appears as a match, whatever the tolerance
\* or factor, and its unit raises nothing.
C10_ZeroReferenceExcluded ==
  \A i \in Units : \A w \in WindowsOf(kind, params) :
     ZeroReference(kind, hist[symbols[i]], params, w) =>
        /\ unit[i] # "raise"
        /\ Finished => symbols[i] \notin SymbolsIn(BucketOf(kind, out, w))

C10_Witness ==
  /\ Finished
  /\ kind = "volume"
  /\ params.factor = 0
  /\ Len(out) > 0
  /\ \E i \in Units :
        ZeroReference(kind, hist[symbols[i]], params, params.window)

\* ================================================================= the views
AllSymbols == 1..NumSymbols

\* ------------------------------------------------------ query-string values
\* a numeric parameter as it arrives: absent, not a number, or a number
Num(v) == [given |-> TRUE, numeric |-> TRUE, v |-> v]

Junk == [given |-> TRUE, numeric |-> FALSE, v |-> 0]

Absent == [given |-> FALSE, numeric |-> FALSE, v |-> 0]

\* try: x = float(request.GET.get(name, default)) except ValueError: default
ParseNumber(raw, default) == IF raw.given /\ raw.numeric THEN raw.v ELSE default

\* request.GET.get(name) in ("1", "true", "True", "yes")
Truthy(raw) == raw \in {"1", "true", "True", "yes"}

\* str.lower() on the universe names used here
Lower(u) == IF u = "NIFTY100" THEN "nifty100" ELSE IF u = "Tickers" THEN "tickers" ELSE u

\* (request.GET.get("universe") or "nifty100").lower()
UniverseName(raw) == Lower(IF raw = "" THEN "nifty100" ELSE raw)

\* One comma-separated token of a symbol list: the symbol it names once
\* stripped and upper-cased (0: blank) and whether it carries ".NS".
Tok(base, ns) == [base |-> base, ns |-> ns]

\* t if t.endswith(".NS") else f"{t}.NS": symbol n stands for "<n>.NS"
EnsureNS(tok) == tok.base

RECURSIVE NormalizeTokens(_)
\* the loop over raw_syms.split(","): blanks skipped, suffix ensured
NormalizeTokens(tokens) ==
  IF tokens = <<>> THEN <<>>
  ELSE LET t == tokens[Len(tokens)]
           rest == NormalizeTokens(DropLast(tokens))
       IN  IF t.base = 0 THEN rest ELSE Append(rest, EnsureNS(t))

NoOverride == [given |-> FALSE, tokens |-> <<>>]

Override(tokens) == [given |-> TRUE, tokens |-> tokens]

\* sorted(set(syms))
SortedSet(syms) ==
  LET S == Range(syms)
  IN  [j \in 1..Cardinality(S) |-> CHOOSE x \in S : Cardinality({y \in S : y < x}) = j - 1]

\* rows of data/nifty100.csv: every symbol, highest first, the first repeated
NiftyCsv == [j \in 1..(NumSymbols + 1) |->
               IF j <= NumSymbols THEN Tok(NumSymbols + 1 - j, j % 2 = 0) ELSE Tok(1, TRUE)]

\* Ticker.objects.values_list("symbol", flat=True); symbol is unique
TickerTable == [j \in 1..NumSymbols |-> j]

\* the table as loaded, or still empty; api_scan reads it on every scan, the
\* other two views only for universe=tickers
TickerTables(k) == IF k = "dma200" THEN {TickerTable, <<>>} ELSE {TickerTable}

\* load_universe_symbols(universe) against the universe entries of the cache
LoadUniverse(universe, uc) ==
  IF universe \in DOMAIN uc /\ uc[universe] # <<>>
  THEN [syms |-> uc[universe], ucache |-> uc]
  ELSE LET syms == SortedSet(IF Lower(universe) = "nifty100" THEN NormalizeTokens(NiftyCsv)
                             ELSE IF Lower(universe) = "tickers" THEN tickers
                             ELSE <<>>)
       IN  [syms |-> syms,
            ucache |-> [u \in DOMAIN uc \cup {universe} |->
                          IF u = universe THEN syms ELSE uc[u]]]

\* f"{x:.Nf}": x (in units of 1/scale) rounded to units of 1/per
Fixed(x, scale, per) == RoundHalfEven(x * per, scale)

\* cache.set(key, value)
Put(c, key, value) == [k \in DOMAIN c \cup {key} |-> IF k = key THEN value ELSE c[k]]

Ok(payload) == [status |-> 200, payload |-> payload]

\* an exception leaving the view: Django answers 500
ServerError == [status |-> 500, payload |-> <<>>]

\* one invocation of a scan function by a view
ScanCall(k, syms, p) == [scan |-> k, symbols |-> syms, params |-> p]

\* mutation: the payload is stored whether or not refresh was asked for
StoreAlways(c, refresh, key, payload) == Put(c, key, payload)

\* mutation: a stored payload without results does not count as a hit
Hit_IfResults(c, key) == key \in DOMAIN c /\ c[key].results # <<>>

\* "data = cache.get(key); if data:" -- a stored payload is a non-empty dict
Hit(c, key) == key \in DOMAIN c

\* "if not refresh: cache.set(key, payload, ...)"
StoreUnlessRefresh(c, refresh, key, payload) ==
  IF refresh THEN c ELSE Put(c, key, payload)

\* -------------------------------------- views_volume.py: api_volume_spikes
VolumeRequest(factor, limit, window, universe, syms, ulz, debug, refresh) ==
  [endpoint |-> "volume_spikes", factor |-> factor, limit |-> limit,
   window |-> window, universe |-> universe, symbols |-> syms,
   use_last_nonzero |-> ulz, debug |-> debug, refresh |-> refresh]

\* "--- Params ---"
VolumeArgs(req) ==
  [factor |-> ParseNumber(req.factor, DEFAULT_FACTOR),
   limit |-> ParseNumber(req.limit, DEFAULT_LIMIT_VOLUME),
   window |-> ParseNumber(req.window, DEFAULT_WINDOW),
   universe |-> UniverseName(req.universe),
   refresh |-> Truthy(req.refresh),
   use_last_nonzero |-> Truthy(req.use_last_nonzero),
   debug |-> Truthy(req.debug)]

\* the symbol list of a request and the universe entries after building it
RequestSymbols(req, universe, uc) ==
  IF req.symbols.given
  THEN [syms |-> NormalizeTokens(req.symbols.tokens), ucache |-> uc]
  ELSE LoadUniverse(universe, uc)

\* f"volspike_{universe}_win_{window}_factor_{factor:.3f}_limit_{limit}
\*    _count_{len(symbols)}_ulz_{int(use_last_nonzero)}"
VolumeKey(a, syms) ==
  <<"volspike", a.universe, a.window, Fixed(a.factor, FactorScale, 1000),
    a.limit, Len(syms), a.use_last_nonzero>>

VolumeScanParams(a) == Params(0, a.factor, a.limit, a.window, a.use_last_nonzero, <<>>)

\* factor=0.0, limit=10
PreviewParams(a) == Params(0, 0, PREVIEW_LIMIT, a.window, a.use_last_nonzero, <<>>)

VolumePayload(a, matches, with_preview, preview) ==
  [universe |-> a.universe, factor |-> a.factor, limit |-> a.limit,
   window |-> a.window, count |-> Len(matches), results |-> matches,
   has_debug_top |-> with_preview, debug_top |-> preview]

\* every payload a computation of the request can build over history h
VolumePayloads(a, syms, h) ==
  UNION {IF a.debug /\ matches = <<>>
         THEN {VolumePayload(a, matches, TRUE, preview) :
                 preview \in PossibleReturns("volume", syms, h, PreviewParams(a))}
         ELSE {VolumePayload(a, matches, FALSE, <<>>)} :
         matches \in PossibleReturns("volume", syms, h, VolumeScanParams(a))}

\* GET /api/volume_spikes
ApiVolumeSpikes(req) ==
  LET a == VolumeArgs(req)
      lu == RequestSymbols(req, a.universe, ucache)
      key == VolumeKey(a, lu.syms)
  IN  /\ kind = "volume"
      /\ nreq < MaxRequests
      /\ request' = req
      /\ nreq' = nreq + 1
      /\ ucache' = lu.ucache
      /\ failed' = {}
      /\ IF ~a.refresh /\ Hit(cache, key)
         THEN /\ response' = Ok(cache[key])
              /\ cache' = cache
              /\ calls' = <<>>
         ELSE IF ScanRaises("volume", lu.syms, hist, VolumeScanParams(a))
         THEN /\ response' = ServerError
              /\ cache' = cache
              /\ calls' = <<ScanCall("volume", lu.syms, VolumeScanParams(a))>>
         ELSE \E payload \in VolumePayloads(a, lu.syms, hist) :
                /\ response' = Ok(payload)
                /\ cache' = StoreUnlessRefresh(cache, a.refresh, key, payload)
                /\ calls' = <<ScanCall("volume", lu.syms, VolumeScanParams(a))>> \o
                             IF payload.has_debug_top
                             THEN <<ScanCall("volume", lu.syms, PreviewParams(a))>>
                             ELSE <<>>
      /\ UNCHANGED <<kind, hist, tickers, scanVars>>

\* an explicit symbols list naming one symbol
Only(sym, ns) == Override(<<Tok(sym, ns)>>)

\* an explicit symbols list with no symbol in it: ","
Blank == Override(<<Tok(0, FALSE), Tok(0, FALSE)>>)

\* an explicit symbols list as long as the universe that names one symbol
\* over and over, without and with the suffix: "<sym>,<sym>.NS,..."
Repeated(sym) == Override([j \in 1..NumSymbols |-> Tok(sym, j % 2 = 0)])

\* requests: the plain one; other symbol lists; debug; refresh; a factor
\* and limit that change the list; window=0; unusable values
VolumeRequests ==
  {VolumeRequest(Num(DEFAULT_FACTOR), Num(5), Num(2), "", NoOverride, "", "", ""),
   VolumeRequest(Num(DEFAULT_FACTOR), Num(5), Num(2), "", Only(1, FALSE), "", "", ""),
   VolumeRequest(Num(DEFAULT_FACTOR), Num(5), Num(2), "", Only(2, TRUE), "", "", ""),
   VolumeRequest(Num(DEFAULT_FACTOR), Num(5), Num(2), "", NoOverride, "", "1", ""),
   VolumeRequest(Num(DEFAULT_FACTOR), Num(5), Num(2), "", Only(2, TRUE), "", "1", ""),
   VolumeRequest(Num(DEFAULT_FACTOR), Num(5), Num(2), "", NoOverride, "", "", "1"),
   VolumeRequest(Num(DEFAULT_FACTOR), Num(5), Num(2), "", Only(1, FALSE), "", "", "1"),
   VolumeRequest(Num(0), Num(1), Num(2), "", NoOverride, "", "", ""),
   VolumeRequest(Num(DEFAULT_FACTOR), Num(5), Num(0), "", NoOverride, "", "", ""),
   VolumeRequest(Num(DEFAULT_FACTOR), Num(5), Num(2), "", Repeated(1), "", "", ""),
   VolumeRequest(Num(DEFAULT_FACTOR), Num(5), Num(2), "other", NoOverride, "", "", ""),
   VolumeRequest(Junk, Absent, Junk, "NIFTY100", NoOverride, "yes", "", "")}

\* a year of daily volumes: a spike of 4x, and a quiet day
ApiVolumes ==
  <<Frame(Flat(DEFAULT_WINDOW + WINDOW_SLACK, 1) \o <<4>>),
    Frame(Flat(DEFAULT_WINDOW + WINDOW_SLACK, 100) \o <<33>>)>>

\* ------------------------------------ views_ma_monthly.py: api_ma_monthly
MonthlyRequest(ma, tol, limit, universe, syms, refresh) ==
  [endpoint |-> "ma_monthly", ma |-> ma, tol |-> tol, limit |-> limit,
   universe |-> universe, symbols |-> syms, refresh |-> refresh]

\* the default of the ma parameter: "50,100"
DefaultMa == <<50, 100>>

RECURSIVE KeepWindows(_)
\* the loop over ma_param.split(","): int(tok) must parse and be > 0
KeepWindows(tokens) ==
  IF tokens = <<>> THEN <<>>
  ELSE LET t == tokens[Len(tokens)]
           rest == KeepWindows(DropLast(tokens))
       IN  IF t.given /\ t.numeric /\ t.v > 0 THEN Append(rest, t.v) ELSE rest

\* ma_list of the request; raw.given is FALSE for an absent or empty value
ParseMaList(raw) ==
  LET kept == IF raw.given THEN KeepWindows(raw.tokens) ELSE DefaultMa
  IN  IF kept = <<>> THEN DefaultMa ELSE kept

MonthlyArgs(req) ==
  [ma_list |-> ParseMaList(req.ma),
   tol |-> ParseNumber(req.tol, DEFAULT_TOL),
   limit |-> ParseNumber(req.limit, DEFAULT_LIMIT_MONTHLY),
   universe |-> UniverseName(req.universe),
   refresh |-> Truthy(req.refresh)]

\* sorted(ma_list)
SortedInts(seq) ==
  LET n == Len(seq)
      rank(i) == 1 + Cardinality({j \in 1..n : seq[j] < seq[i] \/ (seq[j] = seq[i] /\ j < i)})
  IN  [j \in 1..n |-> seq[CHOOSE i \in 1..n : rank(i) = j]]

\* f"ma_monthly_{universe}_ma_{'-'.join(map(str,sorted(ma_list)))}
\*    _tol_{tol:.4f}_lim_{limit}_nsyms_{len(symbols)}"
MonthlyKey(a, syms) ==
  <<"ma_monthly", a.universe, SortedInts(a.ma_list), Fixed(a.tol, TolScale, 10000),
    a.limit, Len(syms)>>

MonthlyScanParams(a) == Params(a.tol, 0, a.limit, 0, FALSE, a.ma_list)

MonthlyPayload(a, buckets) ==
  [universe |-> a.universe, ma_list |-> a.ma_list, tol |-> a.tol, limit |-> a.limit,
   count_by_ma |-> [m \in Range(a.ma_list) |-> Len(buckets[m])],
   results |-> buckets]

MonthlyPayloads(a, syms, h) ==
  {MonthlyPayload(a, buckets) :
     buckets \in PossibleReturns("monthly", syms, h, MonthlyScanParams(a))}

\* GET /api/ma_monthly
ApiMaMonthly(req) ==
  LET a == MonthlyArgs(req)
      lu == RequestSymbols(req, a.universe, ucache)
      key == MonthlyKey(a, lu.syms)
  IN  /\ kind = "monthly"
      /\ nreq < MaxRequests
      /\ request' = req
      /\ nreq' = nreq + 1
      /\ ucache' = lu.ucache
      /\ failed' = {}
      /\ IF ~a.refresh /\ Hit(cache, key)
         THEN /\ response' = Ok(cache[key])
              /\ cache' = cache
              /\ calls' = <<>>
         ELSE /\ calls' = <<ScanCall("monthly", lu.syms, MonthlyScanParams(a))>>
              /\ IF ScanRaises("monthly", lu.syms, hist, MonthlyScanParams(a))
                 THEN /\ response' = ServerError
                      /\ cache' = cache
                 ELSE \E payload \in MonthlyPayloads(a, lu.syms, hist) :
                        /\ response' = Ok(payload)
                        /\ cache' = StoreUnlessRefresh(cache, a.refresh, key, payload)
      /\ UNCHANGED <<kind, hist, tickers, scanVars>>

MaTokens(tokens) == [given |-> TRUE, tokens |-> tokens]

MonthlyRequests ==
  {MonthlyRequest(Absent, Num(DEFAULT_TOL), Num(5), "", NoOverride, ""),
   MonthlyRequest(Absent, Num(DEFAULT_TOL), Num(5), "", Only(1, FALSE), ""),
   MonthlyRequest(Absent, Num(DEFAULT_TOL), Num(5), "", Only(2, TRUE), ""),
   MonthlyRequest(Absent, Num(DEFAULT_TOL), Num(5), "", NoOverride, "1"),
   MonthlyRequest(Absent, Num(DEFAULT_TOL), Num(5), "", Only(1, FALSE), "1"),
   MonthlyRequest(MaTokens(<<Num(3), Num(2)>>), Num(DEFAULT_TOL), Num(5), "", NoOverride, ""),
   MonthlyRequest(Absent, Num(DEFAULT_TOL), Num(1), "", NoOverride, ""),
   MonthlyRequest(Absent, Num(DEFAULT_TOL), Num(5), "", Repeated(1), ""),
   MonthlyRequest(Absent, Num(DEFAULT_TOL), Num(5), "", Blank, ""),
   MonthlyRequest(MaTokens(<<Junk, Num(0), Num(-5)>>), Junk, Junk, "NIFTY100", NoOverride, "")}

\* a hundred and one months of closes: last month up 0.2%, and flat
ApiCloses(rows) ==
  <<Frame(Flat(rows - 1, 1000) \o <<1002>>),
    Frame(Flat(rows, 1000))>>

\* ------------------------------------------------------- views.py: api_scan
ScanRequest(tol, include, limit, event_window, max) ==
  [endpoint |-> "scan", tol |-> tol, include |-> include, limit |-> limit,
   event_window |-> event_window, max |-> max, refresh |-> ""]

\* include is the set of names in the comma-separated, lower-cased value
ScanArgs(req) ==
  [tol |-> ParseNumber(req.tol, DEFAULT_TOL),
   include_news |-> "news" \in req.include,
   include_events |-> "events" \in req.include,
   limit |-> ParseNumber(req.limit, DEFAULT_LIMIT_NEWS),
   event_window |-> ParseNumber(req.event_window, DEFAULT_EVENT_WINDOW),
   max_matches |-> ParseNumber(req.max, DEFAULT_MAX)]

\* f"scan_200dma_tol_{tol:.4f}_news_{..}_events_{..}_lim_{limit}_ew_{event_window}"
ScanKey(a) ==
  <<"scan_200dma", Fixed(a.tol, TolScale, 10000), a.include_news, a.include_events,
    a.limit, a.event_window>>

\* list[:k]
PySlice(list, k) ==
  SubSeq(list, 1, IF k >= 0 THEN Min(k, Len(list)) ELSE Max(Len(list) + k, 0))

\* the RSS entries found for a symbol (two each)
NewsFeed(sym) == <<[title |-> 1, of |-> sym], [title |-> 2, of |-> sym]>>

\* fetch_google_news(sym, name, limit): feed.entries[:limit]
fetch_google_news(sym, limit) == PySlice(NewsFeed(sym), limit)

\* the announcements found for a symbol: whether the headline names a
\* sensitive event, and how many days from today it is dated
AnnouncementFeed(sym) ==
  <<[headline |-> 1, sensitive |-> TRUE, days |-> 10],
    [headline |-> 2, sensitive |-> sym % 2 = 0, days |-> -1]>>

\* fetch_nse_announcements(sym, limit): rows[:limit]
fetch_nse_announcements(sym, limit) == PySlice(AnnouncementFeed(sym), limit)

\* has_upcoming_event(anns, window_days): the nearest sensitive announcement
\* within the window, the earlier one among equally near (0: none)
has_upcoming_event(anns, window_days) ==
  LET near == {j \in 1..Len(anns) : anns[j].sensitive /\ Abs(anns[j].days) <= window_days}
      closest == IF near = {} THEN 0
                 ELSE CHOOSE j \in near : \A i \in near :
                        \/ Abs(anns[j].days) < Abs(anns[i].days)
                        \/ Abs(anns[j].days) = Abs(anns[i].days) /\ j <= i
  IN  [has_upcoming |-> closest # 0,
       next_event |-> IF closest = 0 THEN 0 ELSE anns[closest].headline]

NoEvents == [announcements |-> <<>>, summary |-> [has_upcoming |-> FALSE, next_event |-> 0]]

\* what task(row) returns for a symbol
Enrichment(sym, a) ==
  [news |-> IF a.include_news THEN fetch_google_news(sym, a.limit) ELSE <<>>,
   events |-> IF a.include_events
              THEN [announcements |-> fetch_nse_announcements(sym, a.limit),
                    summary |-> has_upcoming_event(
                                  fetch_nse_announcements(sym, a.limit), a.event_window)]
              ELSE NoEvents]

\* extra.get("news", []) / extra.get("events", {...}) of a missing entry
NoEnrichment == [news |-> <<>>, events |-> NoEvents]

RECURSIVE EnrichMap(_, _, _, _, _)
\* enrich_map once the first n completions are order[1..n]; a task that
\* raised (bad) leaves no entry
EnrichMap(rows, a, order, bad, n) ==
  IF n = 0 THEN <<>>
  ELSE LET sym == rows[order[n]].symbol
           rest == EnrichMap(rows, a, order, bad, n - 1)
       IN  IF sym \in bad THEN rest ELSE Put(rest, sym, Enrichment(sym, a))

\* enrich_map.get(row["symbol"], {})
Attached(enrich_map, sym) ==
  IF sym \in DOMAIN enrich_map THEN enrich_map[sym] ELSE NoEnrichment

\* a row of the response: the match, with news and events when asked for
ScanRow(r, a, enrich_map) ==
  [symbol |-> r.symbol, close |-> r.close, sma200 |-> r.sma200,
   distance_pct |-> r.distance_pct,
   has_news |-> a.include_news,
   news |-> IF a.include_news THEN Attached(enrich_map, r.symbol).news ELSE <<>>,
   has_events |-> a.include_events,
   events |-> IF a.include_events THEN Attached(enrich_map, r.symbol).events ELSE NoEvents]

\* take = matches[:max_matches] if (include_news or include_events) else matches
Take(matches, a) ==
  IF a.include_news \/ a.include_events THEN PySlice(matches, a.max_matches) ELSE matches

\* the symbols whose feeds can make task(row) raise (a headline that is not
\* text, say); the feeds of the others are well-formed
Fragile == {1}

\* the enrichment tasks that may raise: none are run without include
Failures(a, rows) ==
  IF a.include_news \/ a.include_events
  THEN SUBSET (SymbolsIn(rows) \cap Fragile)
  ELSE {{}}

ScanPayload(a, matches, order, bad) ==
  LET rows == Take(matches, a)
      enrich_map == IF a.include_news \/ a.include_events
                    THEN EnrichMap(rows, a, order, bad, Len(rows))
                    ELSE <<>>
  IN  [count |-> Len(rows), tolerance |-> a.tol,
       results |-> [j \in 1..Len(rows) |-> ScanRow(rows[j], a, enrich_map)]]

ScanScanParams(a) == Params(a.tol, 0, 0, 0, FALSE, <<>>)

\* every payload built from the matches the scan returned
ScanPayloadsOf(a, matches) ==
  UNION {{ScanPayload(a, matches, order, bad) :
            order \in Orders(Len(Take(matches, a)))} :
         bad \in Failures(a, Take(matches, a))}

\* every payload a computation of the request can build over history h
ScanPayloads(a, h) ==
  UNION {ScanPayloadsOf(a, matches) :
           matches \in PossibleReturns("dma200", tickers, h, ScanScanParams(a))}

\* GET /api/scan
ApiScan(req) ==
  LET a == ScanArgs(req)
      key == ScanKey(a)
  IN  /\ kind = "dma200"
      /\ nreq < MaxRequests
      /\ request' = req
      /\ nreq' = nreq + 1
      /\ IF Hit(cache, key)
         THEN /\ response' = Ok(cache[key])
              /\ cache' = cache
              /\ calls' = <<>>
              /\ failed' = {}
         ELSE /\ calls' = <<ScanCall("dma200", tickers, ScanScanParams(a))>>
              /\ IF ScanRaises("dma200", tickers, hist, ScanScanParams(a))
                 THEN /\ response' = ServerError
                      /\ cache' = cache
                      /\ failed' = {}
                 ELSE \E matches \in PossibleReturns("dma200", tickers, hist,
                                                      ScanScanParams(a)) :
                        \E bad \in Failures(a, Take(matches, a)) :
                          \E order \in Orders(Len(Take(matches, a))) :
                            LET payload == ScanPayload(a, matches, order, bad)
                            IN  /\ response' = Ok(payload)
                                /\ cache' = Put(cache, key, payload)
                                /\ failed' = bad
      /\ UNCHANGED <<kind, hist, tickers, scanVars, ucache>>

ScanRequests ==
  {ScanRequest(Num(DEFAULT_TOL), {}, Absent, Absent, Absent),
   ScanRequest(Num(DEFAULT_TOL), {"news"}, Absent, Absent, Absent),
   ScanRequest(Num(DEFAULT_TOL), {"news"}, Absent, Absent, Num(1)),
   ScanRequest(Num(DEFAULT_TOL), {"news"}, Absent, Absent, Num(-1)),
   ScanRequest(Num(100), {}, Absent, Absent, Absent),
   ScanRequest(Junk, {"events"}, Junk, Junk, Junk)}

ApiFrames(k) ==
  IF k = "volume" THEN ApiVolumes
  ELSE IF k = "monthly" THEN ApiCloses(DEFAULT_WINDOW + 1)
  ELSE ApiCloses(MIN_ROWS_200)

\* the data source: every symbol moving, or only the odd ones
ApiFeeds(k) ==
  {[s \in AllSymbols |-> ApiFrames(k)[1]],
   [s \in AllSymbols |-> ApiFrames(k)[2 - (s % 2)]]}

\* ----------------------------------------------------- the served endpoints
InitApi ==
  /\ kind \in Kinds
  /\ hist \in ApiFeeds(kind)
  /\ tickers \in TickerTables(kind)
  /\ symbols = <<>>
  /\ params = Params(0, 0, 0, 0, FALSE, <<>>)
  /\ pc = "idle"
  /\ unit = <<>>
  /\ results = <<>>
  /\ ranked = <<>>
  /\ out = <<>>
  /\ cache = <<>>
  /\ ucache = <<>>
  /\ request = NoRequest
  /\ response = NoResponse
  /\ nreq = 0
  /\ calls = <<>>
  /\ failed = {}

NextApi ==
  \/ \E req \in ScanRequests : ApiScan(req)
  \/ \E req \in VolumeRequests : ApiVolumeSpikes(req)
  \/ \E req \in MonthlyRequests : ApiMaMonthly(req)

SpecApi == InitApi /\ [][NextApi]_vars

\* what a fresh computation of the request answers
FreshPayloads(req) ==
  IF req.endpoint = "volume_spikes"
  THEN VolumePayloads(VolumeArgs(req),
         RequestSymbols(req, VolumeArgs(req).universe, <<>>).syms, hist)
  ELSE IF req.endpoint = "ma_monthly"
  THEN MonthlyPayloads(MonthlyArgs(req),
         RequestSymbols(req, MonthlyArgs(req).universe, <<>>).syms, hist)
  ELSE ScanPayloads(ScanArgs(req), hist)

\* C4: on api_volume_spikes and api_ma_monthly every non-refresh response
\* equals what a fresh scan with the request's own effective parameters
\* returns (requests with different parameters never share a cache entry).
C4_CacheServesOwnParameters ==
  (request.endpoint \in {"volume_spikes", "ma_monthly"} /\ response.status = 200
     /\ ~Truthy(request.refresh)) =>
        response.payload \in FreshPayloads(request)

\* C5: on api_scan every response equals what a fresh computation with the
\* request's own tol, include flags, limit, event_window and max returns.
C5_ScanCacheServesOwnParameters ==
  (request.endpoint = "scan" /\ response.status = 200) =>
     response.payload \in FreshPayloads(request)

\* the arguments of a scan_monthly_ma call for the window m alone
Alone(p, m) == Params(p.tol, 0, p.limit, 0, FALSE, <<m>>)

\* the rows the call for m alone collects, in the same completion order
RowsAlone(m) ==
  [j \in 1..Len(results) |->
     MonthlyTask(results[j].symbol, hist[results[j].symbol], Alone(params, m)).row]

\* the symbols that have m bars and are within tol of their m-month mean
Near(m) ==
  {symbols[i] : i \in
     {u \in Units :
        LET df == hist[symbols[u]]
        IN  /\ df.present /\ df.ok
            /\ Len(df.bars) >= m
            /\ SmaUsable(RollingMeanLast(df.bars, m))
            /\ MonthlyWithinTol(
                 DistancePct3(df.bars[Len(df.bars)], RollingMeanLast(df.bars, m)),
                 params.tol)}}

\* C13: in a scan_monthly_ma call with several windows the bucket of window
\* m depends on m only: before truncation it holds exactly the symbols with
\* at least m bars that are near their m-month mean, and it is the bucket a
\* call for m alone returns, whatever the symbol does for other windows.
C13_BucketsIndependent ==
  (Finished /\ kind = "monthly") =>
     \A m \in Range(params.ma_list) :
        /\ SymbolsIn(ranked[m]) = Near(m)
        /\ out[m] = MonthlyBuckets(RowsAlone(m), Alone(params, m))[m]

C13_Witness ==
  /\ Finished
  /\ kind = "monthly"
  /\ params.ma_list = <<2, 3>>
  /\ \E a, b \in Range(symbols) :
        /\ a \in SymbolsIn(out[2]) /\ a \notin SymbolsIn(out[3])
        /\ Len(hist[a].bars) < 3
        /\ b \in SymbolsIn(out[2]) /\ b \in SymbolsIn(out[3])

\* the series has the rows the scan asks for and a non-zero mean over w
Measurable(k, df, w) ==
  /\ df.present /\ df.ok
  /\ Len(df.bars) >= (IF k = "dma200" THEN MIN_ROWS_200 ELSE w)
  /\ SmaUsable(RollingMeanLast(df.bars, w))

\* C14: a symbol with sufficient data and a non-zero rolling mean is a match
\* of scan_at_200dma / scan_monthly_ma (before truncation) if and only if
\* its exact distance satisfies abs(100*(close - mean)/mean) <= tol*100,
\* boundary included, identically in both scans.
C14_ExactProximity ==
  (Finished /\ kind \in {"dma200", "monthly"}) =>
     \A w \in WindowsOf(kind, params) : \A i \in Units :
        LET df == hist[symbols[i]]
        IN  Measurable(kind, df, w) =>
              (symbols[i] \in SymbolsIn(BucketOf(kind, ranked, w))
                 <=> WithinTol(df.bars[Len(df.bars)], RollingMeanLast(df.bars, w),
                               params.tol))

\* the series yields a today bar and a positive prior-window maximum
Comparable(df, p) ==
  /\ df.present /\ df.ok
  /\ compute_volume_ratio(df, p.window, p.use_last_nonzero).tag = "ok"

\* x, in units of 1/per, is num/den rounded to the nearest unit
NearestTo(x, num, den, per) == 2 * Abs(x * den - per * num) <= den

\* C15: a symbol with sufficient data and a positive prior-window maximum
\* is a match of top_volume_spikes (before truncation) if and only if
\* today_volume / prior_window_max >= factor, boundary included; its row
\* carries the two integers of the quotient, ratio = 100 * quotient and
\* multiple = quotient, each rounded to 2 decimals.
C15_SpikeQuotient ==
  (Finished /\ kind = "volume") =>
     \A i \in Units :
        LET df == hist[symbols[i]]
            today == df.bars[TodayIndex(df.bars, params.use_last_nonzero)]
            prior == MaxSeq(PriorWindow(df.bars, params.window, params.use_last_nonzero))
        IN  Comparable(df, params) =>
              /\ symbols[i] \in SymbolsIn(ranked)
                    <=> today * FactorScale >= params.factor * prior
              /\ \A j \in 1..Len(ranked) :
                    ranked[j].symbol = symbols[i] =>
                       /\ ranked[j].today_volume = today
                       /\ ranked[j].prev_window_max = prior
                       /\ NearestTo(ranked[j].ratio, 100 * today, prior, 100)
                       /\ NearestTo(ranked[j].multiple, today, prior, 100)

C15_Witness ==
  /\ Finished
  /\ kind = "volume"
  /\ params.factor > 0
  /\ \E j \in 1..Len(out) :
        /\ out[j].today_volume * FactorScale = params.factor * out[j].prev_window_max
        /\ out[j].multiple * FactorScale = params.factor * 100
  /\ \E i \in Units :
        /\ Comparable(hist[symbols[i]], params)
        /\ symbols[i] \notin SymbolsIn(ranked)

RECURSIVE WithoutTrailingZeros(_)
\* the series without the zero-volume bars at its end
WithoutTrailingZeros(s) ==
  IF s = <<>> \/ s[Len(s)] > 0 THEN s ELSE WithoutTrailingZeros(DropLast(s))

\* C16: with use_last_nonzero the bar taken as today is the most recent bar
\* with positive volume, and zero-volume bars at the end of the series are
\* neither today nor in the prior window: neither those after the today bar
\* nor those immediately before it (..., 0, 0, 500: today is 500 and the
\* prior window is taken from the bars before the two zero bars).
C16_TrailingZerosExcluded ==
  (kind = "volume" /\ params.use_last_nonzero) =>
     \A i \in Units :
        LET df == hist[symbols[i]]
            vol == df.bars
            t == TodayIndex(vol, TRUE)
        IN  (unit[i] # "pending" /\ df.present /\ df.ok
               /\ EnoughVolumeBars(vol, params.window) /\ t # 0) =>
              /\ vol[t] > 0
              /\ \A j \in (t + 1)..Len(vol) : vol[j] = 0
              /\ PriorWindow(vol, params.window, TRUE)
                    = TailRows(WithoutTrailingZeros(SubSeq(vol, 1, t - 1)), params.window)

\* the units whose task returns a row
Matching ==
  {i \in Units : Outcomes(kind, symbols, hist, params)[i].tag = "row"}

\* C21: join-all without early exit: one unit is dispatched per symbol of
\* the list; sorting, truncation and return happen only after every unit
\* has completed; a match found, or the limit reached, cancels or skips no
\* unit, so every matching symbol has been collected by then.
C21_JoinAll ==
  /\ DOMAIN unit = DOMAIN symbols
  /\ (pc = "done" \/ ranked # <<>> \/ out # <<>>) =>
        /\ \A i \in Units : unit[i] \in {"none", "row"}
        /\ Len(results) = Cardinality(Matching)
        /\ SymbolsIn(results) = {symbols[i] : i \in Matching}

C21_Witness ==
  /\ Finished
  /\ kind = "volume"
  /\ params.limit = 1
  /\ Len(symbols) = 2
  /\ Len(results) = 2
  /\ Len(out) = 1

\* ------------------------------------------------- a scan that must return
\* readable series and fetches that never come back
LiveData(k) == {df \in DataSet(k) : df.ok} \cup {NoReply}

InitLive ==
  /\ kind \in Kinds
  /\ \E n \in 0..NumSymbols :
       /\ symbols = [i \in 1..n |-> i]
       /\ hist \in [1..n -> LiveData(kind)]
       /\ unit = [i \in 1..n |-> "pending"]
       /\ tickers = [i \in 1..n |-> i]
  /\ params \in ParamSet(kind)
  /\ pc = "running"
  /\ results = <<>>
  /\ ranked = <<>>
  /\ out = <<>>
  /\ cache = <<>>
  /\ ucache = <<>>
  /\ request = NoRequest
  /\ response = NoResponse
  /\ nreq = 0
  /\ calls = <<>>
  /\ failed = {}

\* the pool runs every submitted task and the caller keeps collecting
SpecLive == InitLive /\ [][Next]_vars /\ WF_vars(Next)

\* C12: every scan eventually returns, even when the history fetch of some
\* symbol never responds: that symbol counts as having no data and the
\* matches of the other symbols are returned.
C12_ScanReturns ==
  <>(/\ pc = "done"
     /\ out \in PossibleReturns(kind, symbols,
                   WithoutData(hist, {symbols[i] : i \in Silent}), params))

\* the request has been answered
Answered == request.endpoint # "none"

\* a numeric parameter that is given but does not parse as a number
NotNumber(raw) == raw.given /\ ~raw.numeric

\* the window sizes a scan invocation was given
WindowsGiven(c) == WindowsOf(c.scan, c.params)

\* C11: on every endpoint a malformed numeric parameter (a non-numeric tol,
\* factor, limit or window, or a non-positive window size) is replaced by
\* the default before the scan runs: the request is answered, not rejected,
\* a non-numeric value reaches the scan as the default, and no scan is
\* invoked with a non-positive window.
C11_MalformedReplacedByDefault ==
  Answered =>
     /\ response.status = 200
     /\ \A j \in 1..Len(calls) :
           LET p == calls[j].params
           IN  /\ \A w \in WindowsGiven(calls[j]) : w > 0
               /\ (request.endpoint = "volume_spikes" /\ j = 1) =>
                     /\ (NotNumber(request.factor) => p.factor = DEFAULT_FACTOR)
                     /\ (NotNumber(request.limit) => p.limit = DEFAULT_LIMIT_VOLUME)
                     /\ (NotNumber(request.window) => p.window = DEFAULT_WINDOW)
               /\ request.endpoint = "ma_monthly" =>
                     /\ (NotNumber(request.tol) => p.tol = DEFAULT_TOL)
                     /\ (NotNumber(request.limit) => p.limit = DEFAULT_LIMIT_MONTHLY)
               /\ (request.endpoint = "scan" /\ NotNumber(request.tol)) =>
                     p.tol = DEFAULT_TOL

\* no element occurs twice in the list
NoRepeat(list) == \A a, b \in 1..Len(list) : list[a] = list[b] => a = b

\* the result lists of an answer
ResultLists(req, payload) ==
  IF req.endpoint = "ma_monthly"
  THEN {payload.results[m] : m \in DOMAIN payload.results}
  ELSE {payload.results}

\* the symbols of a result list, in order
SymbolColumn(list) == [j \in 1..Len(list) |-> list[j].symbol]

\* C17: the symbol list handed to a scan never holds a symbol twice, whether
\* it comes from a named universe or from the request's symbols list, and
\* so no result list holds a symbol twice.
C17_NoDuplicateSymbols ==
  Answered =>
     /\ \A j \in 1..Len(calls) : NoRepeat(calls[j].symbols)
     /\ response.status = 200 =>
           \A list \in ResultLists(request, response.payload) :
              NoRepeat(SymbolColumn(list))

\* C18: on api_volume_spikes an answer carries debug_top exactly when the
\* request itself had debug=1 and its results list is empty, whatever
\* requests came before.
C18_DebugTopOnlyOnDebug ==
  (request.endpoint = "volume_spikes" /\ response.status = 200) =>
     (response.payload.has_debug_top
        <=> (Truthy(request.debug) /\ response.payload.results = <<>>))

\* the cache key the view builds for the request
RequestKey(req) ==
  IF req.endpoint = "volume_spikes"
  THEN VolumeKey(VolumeArgs(req),
         RequestSymbols(req, VolumeArgs(req).universe, ucache).syms)
  ELSE IF req.endpoint = "ma_monthly"
  THEN MonthlyKey(MonthlyArgs(req),
         RequestSymbols(req, MonthlyArgs(req).universe, ucache).syms)
  ELSE ScanKey(ScanArgs(req))

\* this step answers a refresh=1 request to one of the two endpoints
RefreshStep ==
  /\ nreq' = nreq + 1
  /\ request'.endpoint \in {"volume_spikes", "ma_monthly"}
  /\ Truthy(request'.refresh)

\* C19: a refresh=1 request to api_volume_spikes or api_ma_monthly always
\* runs a fresh scan, whatever the cache holds, and leaves every stored
\* response as it was, so later non-refresh requests find under their key
\* what they would have found without it.  (The symbol list of a named
\* universe is cached by load_universe_symbols on any request.)
C19_RefreshLeavesResponses ==
  [][RefreshStep =>
       /\ calls' # <<>>
       /\ cache' = cache
       /\ response'.status = 200 => response'.payload \in FreshPayloads(request')]_vars

C19_Witness ==
  /\ Answered
  /\ request.endpoint \in {"volume_spikes", "ma_monthly"}
  /\ Truthy(request.refresh)
  /\ RequestKey(request) \in DOMAIN cache
  /\ calls # <<>>
  /\ response.status = 200

\* C19 as stated: a refresh=1 request leaves the whole cache unchanged.
C19_RefreshLeavesCache ==
  [][RefreshStep => (cache' = cache /\ ucache' = ucache)]_vars

\* the request is for a universe without symbols
EmptyUniverse(req) ==
  IF req.endpoint = "volume_spikes"
  THEN RequestSymbols(req, VolumeArgs(req).universe, ucache).syms = <<>>
  ELSE IF req.endpoint = "ma_monthly"
  THEN RequestSymbols(req, MonthlyArgs(req).universe, ucache).syms = <<>>
  ELSE tickers = <<>>

\* C20: over an empty universe every endpoint answers normally with count 0
\* (count_by_ma all 0 on the monthly endpoint) and empty results, on the
\* first request and on every repeated one, cached or not.
C20_EmptyUniverseCountsZero ==
  (Answered /\ EmptyUniverse(request)) =>
     /\ response.status = 200
     /\ \A j \in 1..Len(calls) : calls[j].symbols = <<>>
     /\ \A list \in ResultLists(request, response.payload) : list = <<>>
     /\ IF request.endpoint = "ma_monthly"
        THEN \A m \in DOMAIN response.payload.count_by_ma :
                response.payload.count_by_ma[m] = 0
        ELSE response.payload.count = 0

\* an empty universe answered by a scan, and answered again from the cache
C20_Witness ==
  /\ Answered
  /\ EmptyUniverse(request)
  /\ nreq >= 2
  /\ calls = <<>>
  /\ response.status = 200
  /\ RequestKey(request) \in DOMAIN cache

\* the answer was computed by api_scan with news and/or events asked for
EnrichedAnswer ==
  /\ request.endpoint = "scan"
  /\ response.status = 200
  /\ calls # <<>>
  /\ request.include # {}

\* the rows answered are the first n of the ranked matches, each with its
\* own enrichment, or with the defaults when its own task raised
RowsAreFirst(matches, n) ==
  LET a == ScanArgs(request)
      rows == response.payload.results
  IN  /\ Len(rows) = n
      /\ response.payload.count = n
      /\ \A j \in 1..Len(rows) :
            LET extra == IF rows[j].symbol \in failed THEN NoEnrichment
                         ELSE Enrichment(rows[j].symbol, a)
            IN  /\ j <= Len(matches)
                /\ rows[j].symbol = matches[j].symbol
                /\ rows[j].close = matches[j].close
                /\ rows[j].sma200 = matches[j].sma200
                /\ rows[j].distance_pct = matches[j].distance_pct
                /\ rows[j].news = extra.news
                /\ rows[j].events = extra.events

\* the ranked lists the scan behind the answer can have returned
MatchesBehind ==
  PossibleReturns("dma200", tickers, hist, ScanScanParams(ScanArgs(request)))

\* C22: in an answer api_scan computes with news and/or events, enrichment
\* adds, removes and reorders nothing: the rows are exactly the first
\* min(max, number of matches) scan matches (none when that is negative)
\* in rank order, whatever order
\* the enrichment tasks complete in, and a task that raises leaves its row
\* with an empty news list / the default events summary and touches no
\* other row.
C22_FirstMinOfMax ==
  EnrichedAnswer =>
     \E matches \in MatchesBehind :
        RowsAreFirst(matches, Max(0, Min(ScanArgs(request).max_matches, Len(matches))))

\* a non-refresh request arrives while its key is in the cache
HitStep ==
  /\ nreq' = nreq + 1
  /\ ~Truthy(request'.refresh)
  /\ RequestKey(request') \in DOMAIN cache

\* C23: a non-refresh request to api_scan, api_volume_spikes or
\* api_ma_monthly whose key is in the cache runs no scan and leaves every
\* stored response as it was: it returns the stored payload unchanged, so a
\* repeated identical request returns the identical payload, also when the
\* stored results list is empty.  (The symbol list of a named universe is
\* cached by load_universe_symbols on any request.)
C23_HitServesStored ==
  [][HitStep =>
       /\ calls' = <<>>
       /\ cache' = cache
       /\ response' = Ok(cache[RequestKey(request')])
       /\ (request' = request /\ response.status = 200) => response' = response]_vars

C23_Witness ==
  /\ Answered
  /\ ~Truthy(request.refresh)
  /\ ~EmptyUniverse(request)
  /\ nreq >= 2
  /\ calls = <<>>
  /\ response = Ok(cache[RequestKey(request)])
  /\ response.payload.results = <<>>

\* C23 as stated: a cache hit performs no cache write at all.
C23_HitWritesNothing ==
  [][HitStep => (calls' = <<>> /\ cache' = cache /\ ucache' = ucache)]_vars

====
